---- MODULE Spec2Model ----
(***************************************************************************)
(* ST7735S panel driver (src/st7735s.py) as a state machine.               *)
(*                                                                         *)
(* The driver is sequential Python: the model keeps the call stack of the  *)
(* driver's own functions (one frame per active call, with its position    *)
(* and locals) and the exception in flight, and takes one step per bus     *)
(* transfer or per straight-line block between transfers.  The collaborators*)
(* (spidev handle, RPi.GPIO lines, the panel) are state the steps act on.  *)
(* Transfer faults are drawn from a budget; a transfer on a closed handle  *)
(* and an output on a released line always raise.                          *)
(***************************************************************************)
EXTENDS Integers, Sequences, FiniteSets, TLC

\* ---------------------------------------------------------------- bounds
\* Transfer faults the bus may inject over one lifetime of the instance.
MaxFaults == 1
\* Nested _recover_spi calls the interpreter admits before RecursionError
\* (the limit of 1000 frames, scaled down).
MaxDepth == 1
\* close() calls made on one instance.
MaxCloses == 2
\* Other public calls made on an instance after its first close().
MaxCallsAfterClose == 1
\* Transfers of the current public call kept in bus (the most recent ones);
\* a constructor that meets no fault makes 45.
BusWindow == 45
\* Whole chunks in the payloads handed to _write_data directly.
MaxChunks == 6

\* ------------------------------------------------------------- constants
CMD_SWRESET == 1
CMD_SLPOUT == 17
CMD_INVON == 33
CMD_NORON == 32
CMD_DISPON == 41
CMD_CASET == 42
CMD_RASET == 43
CMD_RAMWR == 44
CMD_MADCTL == 54
CMD_COLMOD == 58
CMD_FRMCTR1 == 177
CMD_FRMCTR2 == 178
CMD_FRMCTR3 == 179
CMD_INVCTR == 180
CMD_PWCTR1 == 192
CMD_PWCTR2 == 193
CMD_PWCTR3 == 194
CMD_PWCTR4 == 195
CMD_PWCTR5 == 196
CMD_VMCTR1 == 197
MADCTL_RGB == 0
MADCTL_MV == 32
MADCTL_MX == 64
MADCTL_MY == 128
COLMOD_16BIT == 5
DISPLAY_WIDTH == 80
DISPLAY_HEIGHT == 160
MAX_SPI_CHUNK == 4096
\* _recover_spi's literals: self.spi.open(0, 0); max_speed_hz = 24_000_000
RECOVER_PORT == 0
RECOVER_CS == 0
RECOVER_SPEED_HZ == 24000000

Lines == {"dc", "rst", "bl"}

\* ------------------------------------------------------------ arithmetic
Min(a, b) == IF a <= b THEN a ELSE b
Max(a, b) == IF a >= b THEN a ELSE b

RECURSIVE BitAnd(_, _)
BitAnd(a, b) ==
    IF a = 0 \/ b = 0 THEN 0
    ELSE (a % 2) * (b % 2) + 2 * BitAnd(a \div 2, b \div 2)

RECURSIVE BitOr(_, _)
BitOr(a, b) ==
    IF a = 0 THEN b
    ELSE IF b = 0 THEN a
    ELSE Max(a % 2, b % 2) + 2 * BitOr(a \div 2, b \div 2)

Shr(a, n) == a \div (2 ^ n)
Shl(a, n) == a * (2 ^ n)

\* --------------------------------------------------------- pure functions
\* A string is the sequence of its characters: 0..15 a hex digit, HASH '#',
\* BADCH a character that is no hex digit.
HASH == 16
BADCH == 17

RECURSIVE lstrip(_)
lstrip(s) == IF s # <<>> /\ Head(s) = HASH THEN lstrip(Tail(s)) ELSE s

\* hex_to_rgb: [ok |-> FALSE] stands for the ValueError.
hex_to_rgb(hex_color) ==
    LET h == lstrip(hex_color)
    IN  IF Len(h) # 6 THEN [ok |-> FALSE, rgb |-> <<0, 0, 0>>]
        ELSE IF \E k \in 1..6 : h[k] > 15 THEN [ok |-> FALSE, rgb |-> <<0, 0, 0>>]
        ELSE [ok |-> TRUE,
              rgb |-> <<16 * h[1] + h[2], 16 * h[3] + h[4], 16 * h[5] + h[6]>>]

\* The packing wrong: green cut to five bits, as red is.
pack565_green_five_bits(rgb) ==
    LET r == Max(0, Min(255, rgb[1]))
        g == Max(0, Min(255, rgb[2]))
        b == Max(0, Min(255, rgb[3]))
    IN  BitOr(BitOr(Shl(BitAnd(r, 248), 8), Shl(BitAnd(g, 248), 3)), Shr(b, 3))

\* _rgb_to_565 on an (r, g, b) triple: clamp, then pack.
pack565(rgb) ==
    LET r == Max(0, Min(255, rgb[1]))
        g == Max(0, Min(255, rgb[2]))
        b == Max(0, Min(255, rgb[3]))
    IN  BitOr(BitOr(Shl(BitAnd(r, 248), 8), Shl(BitAnd(g, 252), 3)), Shr(b, 3))

\* _rgb_to_565 on a color argument [kind |-> "tuple" | "str", v |-> ...].
rgb_to_565(color) ==
    IF color.kind = "str"
    THEN LET p == hex_to_rgb(color.v)
         IN  [ok |-> p.ok, v |-> pack565(p.rgb)]
    ELSE [ok |-> TRUE, v |-> pack565(color.v)]

\* The table wrong: the bits of 90 and 270 exchanged.
Madctl_quarter_turns_exchanged(r) ==
    CASE r = 0   -> BitOr(MADCTL_RGB, BitOr(MADCTL_MX, MADCTL_MY))
      [] r = 90  -> BitOr(MADCTL_RGB, BitOr(MADCTL_MX, MADCTL_MV))
      [] r = 180 -> MADCTL_RGB
      [] OTHER   -> BitOr(MADCTL_RGB, BitOr(MADCTL_MY, MADCTL_MV))

\* The rotation table of set_rotation: rotation -> MADCTL bits and geometry.
Madctl(r) ==
    CASE r = 0   -> BitOr(MADCTL_RGB, BitOr(MADCTL_MX, MADCTL_MY))
      [] r = 90  -> BitOr(MADCTL_RGB, BitOr(MADCTL_MY, MADCTL_MV))
      [] r = 180 -> MADCTL_RGB
      [] OTHER   -> BitOr(MADCTL_RGB, BitOr(MADCTL_MX, MADCTL_MV))

Geometry(s, r) ==
    IF r = 0 \/ r = 180
    THEN [s EXCEPT !.width = s.orig_width, !.height = s.orig_height,
                   !.x_offset = s.hw_x_offset, !.y_offset = s.hw_y_offset]
    ELSE [s EXCEPT !.width = s.orig_height, !.height = s.orig_width,
                   !.x_offset = s.hw_y_offset, !.y_offset = s.hw_x_offset]

\* A payload is a byte pattern repeated rep times (a parameter list is its
\* own pattern once; pixel data of a solid image is the color pair w*h times).
NoData == [pat |-> <<>>, rep |-> 0]
Bytes(p) == [pat |-> p, rep |-> 1]
DataLen(d) == Len(d.pat) * d.rep

\* The resize wrong: skipped, the image left at its declared size.
resize_skipped(image, w, h) == image

\* An image is solid: its declared size and the color of every pixel.
\* image.resize((w, h)) of a solid image is the solid image of size (w, h).
resize(image, w, h) == [image EXCEPT !.w = w, !.h = h]

\* The conversion wrong: the low byte of each pixel first.
image_to_data_low_first(image) ==
    LET c == pack565(image.rgb)
    IN  [pat |-> <<BitAnd(c, 255), Shr(c, 8)>>, rep |-> image.w * image.h]

\* _image_to_data: two bytes per pixel, high byte first, for every pixel.
image_to_data(image) ==
    LET c == pack565(image.rgb)
    IN  [pat |-> <<Shr(c, 8), BitAnd(c, 255)>>, rep |-> image.w * image.h]

\* ---------------------------------------------------------------- inputs
\* The constructor's arguments: hud.py's (rotation 270 on the defaults), a
\* board on the other port with inverted colors, and an invalid rotation.
Configs ==
    { [rotation |-> 270, invert |-> FALSE, port |-> 0, cs |-> 0,
       speed_hz |-> 24000000, x_offset |-> 24, y_offset |-> 0],
      [rotation |-> 0, invert |-> TRUE, port |-> 1, cs |-> 1,
       speed_hz |-> 8000000, x_offset |-> 26, y_offset |-> 1],
      [rotation |-> 45, invert |-> FALSE, port |-> 0, cs |-> 0,
       speed_hz |-> 24000000, x_offset |-> 24, y_offset |-> 0] }

RotationArgs == {90, 180, 45, 450}

Images ==
    { [w |-> 160, h |-> 80, rgb |-> <<255, 0, 0>>],
      [w |-> 32, h |-> 32, rgb |-> <<255, 0, 0>>] }

ColorArgs ==
    { [kind |-> "tuple", v |-> <<0, 0, 0>>],
      [kind |-> "str", v |-> <<HASH, 0, 0, 0, 0, 0, 0>>],
      [kind |-> "str", v |-> <<HASH, 15, 15, 15>>] }

\* ----------------------------------------------------------------- state
VARIABLES
    stack,       \* active calls of the driver's functions, innermost last
    exc,         \* the exception propagating into the innermost frame
    call,        \* the public operation in progress, "none" between calls
    phase,       \* Uninitialized | Ready | Failed | Closed, as the caller sees it
    cfg,         \* the constructor's arguments
    limit,       \* the interpreter's recursion limit, in nested recoveries
    self,        \* the instance's fields
    spi,         \* the spidev handle
    gpio,        \* the control lines: which are claimed, and their levels
    panel,       \* what the panel has been told: its display mode
    bus,         \* transfers of the current call, the last BusWindow of them
    faultsLeft,  \* transfer faults the bus may still inject
    obs,         \* bookkeeping of the current call (faults, recoveries, pre-state)
    life         \* close() calls and what they released, calls made after closing

vars == <<stack, exc, call, phase, cfg, limit, self, spi, gpio, panel, bus,
          faultsLeft, obs, life>>

Frame(fn, pc, a) == [fn |-> fn, pc |-> pc, a |-> a, d |-> NoData, i |-> 0]
Top == stack[Len(stack)]
Running == stack # <<>> /\ exc = "none"
At(fn, pc) == Running /\ Top.fn = fn /\ Top.pc = pc

Popped == SubSeq(stack, 1, Len(stack) - 1)
\* The innermost frame replaced by f.
Stepped(f) == [stack EXCEPT ![Len(stack)] = f]
\* The innermost frame moved to f, and a call of g from it.
Called(f, g) == Append(Stepped(f), g)
Advance(f) == [f EXCEPT !.pc = f.pc + 1, !.i = 0]

Depth == Cardinality({k \in 1..Len(stack) : stack[k].fn = "_recover_spi"})

ClosedHandle == [open |-> FALSE, port |-> 0, cs |-> 0, max_speed_hz |-> 0]

\* pre: rotation and geometry when the call was made; faulted: a transfer
\* faulted; initfault: a transfer of the constructor's _init_display did;
\* pending: the last fault has had no recovery attempt; started: a recovery
\* was started; recovered: one ran to its end; nested: one was started
\* while another was running.
NoObs == [pre |-> <<0, 0, 0, 0, 0>>, faulted |-> FALSE, initfault |-> FALSE,
          pending |-> FALSE, started |-> FALSE, recovered |-> FALSE,
          nested |-> FALSE]

SelfGeometry == <<self.rotation, self.width, self.height,
                  self.x_offset, self.y_offset>>

\* closes: close() calls counted against MaxCloses; after: calls made on the
\* closed instance; bus, dc, rst, bl: how often each resource was released.
Life(c) == [closes |-> c, after |-> 0, bus |-> 0, dc |-> 0, rst |-> 0, bl |-> 0]

Start ==
    /\ stack = <<>>
    /\ exc = "none"
    /\ call = "none"
    /\ phase = "Uninitialized"
    /\ cfg \in Configs
    /\ self = [orig_width |-> 0, orig_height |-> 0, hw_x_offset |-> 0,
               hw_y_offset |-> 0, x_offset |-> 0, y_offset |-> 0,
               width |-> 0, height |-> 0, rotation |-> 0]
    /\ spi = ClosedHandle
    /\ gpio = [claimed |-> {}, dc |-> 0, rst |-> 0, bl |-> 0]
    /\ panel = [inverted |-> FALSE]
    /\ bus = <<>>
    /\ obs = NoObs

\* Before the constructor is called, on a bus that injects up to MaxFaults
\* transfer faults.
Init ==
    /\ Start
    /\ faultsLeft = MaxFaults
    /\ limit = MaxDepth
    /\ life = Life(0)

\* The inverted configuration on a bus that injects one fault more, so that
\* a transfer can fault while the recovery from an earlier fault is running;
\* close() is called at most once.
InitNested ==
    /\ Start
    /\ cfg.invert
    /\ faultsLeft = MaxFaults + 1
    /\ limit = MaxDepth + 1
    /\ life = Life(MaxCloses - 1)

\* ------------------------------------------------------------- programs
Cmd(c) == [op |-> "cmd", c |-> c, d |-> NoData]
Data(d) == [op |-> "data", c |-> 0, d |-> d]
Other == [op |-> "step", c |-> 0, d |-> NoData]
Ret == [op |-> "ret", c |-> 0, d |-> NoData]

\* The sequence wrong: the display mode not taken from invert.
InitSeq_always_normal(invert) ==
    << Cmd(CMD_SWRESET),
       Cmd(CMD_SLPOUT),
       Cmd(CMD_FRMCTR1), Data(Bytes(<<1, 44, 45>>)),
       Cmd(CMD_FRMCTR2), Data(Bytes(<<1, 44, 45>>)),
       Cmd(CMD_FRMCTR3), Data(Bytes(<<1, 44, 45, 1, 44, 45>>)),
       Cmd(CMD_INVCTR), Data(Bytes(<<7>>)),
       Cmd(CMD_PWCTR1), Data(Bytes(<<162, 2, 132>>)),
       Cmd(CMD_PWCTR2), Data(Bytes(<<197>>)),
       Cmd(CMD_PWCTR3), Data(Bytes(<<10, 0>>)),
       Cmd(CMD_PWCTR4), Data(Bytes(<<138, 42>>)),
       Cmd(CMD_PWCTR5), Data(Bytes(<<138, 238>>)),
       Cmd(CMD_VMCTR1), Data(Bytes(<<14>>)),
       Cmd(CMD_COLMOD), Data(Bytes(<<COLMOD_16BIT>>)),
       Cmd(CMD_NORON),
       Cmd(CMD_DISPON) >>

\* The transfers of _init_display(invert), in program order.
InitSeq(invert) ==
    << Cmd(CMD_SWRESET),
       Cmd(CMD_SLPOUT),
       Cmd(CMD_FRMCTR1), Data(Bytes(<<1, 44, 45>>)),
       Cmd(CMD_FRMCTR2), Data(Bytes(<<1, 44, 45>>)),
       Cmd(CMD_FRMCTR3), Data(Bytes(<<1, 44, 45, 1, 44, 45>>)),
       Cmd(CMD_INVCTR), Data(Bytes(<<7>>)),
       Cmd(CMD_PWCTR1), Data(Bytes(<<162, 2, 132>>)),
       Cmd(CMD_PWCTR2), Data(Bytes(<<197>>)),
       Cmd(CMD_PWCTR3), Data(Bytes(<<10, 0>>)),
       Cmd(CMD_PWCTR4), Data(Bytes(<<138, 42>>)),
       Cmd(CMD_PWCTR5), Data(Bytes(<<138, 238>>)),
       Cmd(CMD_VMCTR1), Data(Bytes(<<14>>)),
       Cmd(CMD_COLMOD), Data(Bytes(<<COLMOD_16BIT>>)),
       Cmd(IF invert THEN CMD_INVON ELSE CMD_NORON),
       Cmd(CMD_DISPON) >>

\* The transfers of _set_window on the offset bounds <<x0, y0, x1, y1>>.
WindowSeq(w) ==
    << Cmd(CMD_CASET),
       Data(Bytes(<<Shr(w[1], 8), BitAnd(w[1], 255), Shr(w[3], 8), BitAnd(w[3], 255)>>)),
       Cmd(CMD_RASET),
       Data(Bytes(<<Shr(w[2], 8), BitAnd(w[2], 255), Shr(w[4], 8), BitAnd(w[4], 255)>>)),
       Cmd(CMD_RAMWR) >>

\* What frame f does next: a _write_command, a _write_data, a return, or a
\* step of its own. A "_write_data" frame is a caller that hands f.d to
\* _write_data and returns.
Instr(f) ==
    CASE f.fn = "_init_display" ->
            IF f.pc <= Len(InitSeq(f.a[1])) THEN InitSeq(f.a[1])[f.pc] ELSE Ret
      [] f.fn = "_set_window" ->
            IF f.pc <= Len(WindowSeq(f.a)) THEN WindowSeq(f.a)[f.pc] ELSE Ret
      [] f.fn = "set_rotation" ->
            CASE f.pc = 2 -> Cmd(CMD_MADCTL)
              [] f.pc = 3 -> Data(Bytes(<<f.a[2]>>))
              [] OTHER -> Other
      [] f.fn = "display" ->
            CASE f.pc = 3 -> Data(f.d)
              [] f.pc = 4 -> Ret
              [] OTHER -> Other
      [] f.fn = "fill" -> IF f.pc = 5 THEN Ret ELSE Other
      [] f.fn = "_write_data" -> IF f.pc = 1 THEN Data(f.d) ELSE Ret
      [] f.fn = "_rgb_to_565" -> IF f.pc = 2 THEN Ret ELSE Other
      [] OTHER -> Other

\* ------------------------------------------------------------ bus, panel
Sent(t) == IF Len(bus) < BusWindow THEN Append(bus, t) ELSE Append(Tail(bus), t)

\* The panel's display mode after command byte c.
PanelAfter(c) ==
    CASE c = CMD_INVON -> [panel EXCEPT !.inverted = TRUE]
      [] c = CMD_NORON -> [panel EXCEPT !.inverted = FALSE]
      [] c = CMD_SWRESET -> [panel EXCEPT !.inverted = FALSE]
      [] OTHER -> panel

\* spi.xfer2 may raise: always on a closed handle, else while the bus has
\* faults left to inject.
MayFault == ~spi.open \/ faultsLeft > 0
FaultSpent == IF spi.open THEN faultsLeft - 1 ELSE faultsLeft

\* GPIO.cleanup([dc, rst, bl])
Cleanup == [gpio EXCEPT !.claimed = {}]

\* reset(): the reset line pulsed, which resets the panel; when the line is
\* not claimed GPIO.output raises and reset() logs it.
reset(g) == IF "rst" \in g.claimed THEN [g EXCEPT !.rst = 1] ELSE g
PanelReset == IF "rst" \in gpio.claimed THEN [panel EXCEPT !.inverted = FALSE] ELSE panel

\* The backlight step left out.
backlight_skipped(g) == g

\* backlight(True): likewise.
backlight(g) == IF "bl" \in g.claimed THEN [g EXCEPT !.bl = 1] ELSE g

\* ------------------------------------------------------------ exceptions
\* display, fill and _recover_spi catch every Exception, log it and return;
\* _init_display logs and re-raises; set_rotation, _set_window and the panel
\* init of __init__ have no handler.
Swallows == {"_recover_spi", "display", "fill"}

\* The stack once an exception raised in the innermost frame has reached
\* its handler (the handler's function returns), or the caller (<<>>).
Unwound ==
    LET hs == {k \in 1..Len(stack) : stack[k].fn \in Swallows}
    IN  IF hs = {} THEN <<>>
        ELSE SubSeq(stack, 1, (CHOOSE k \in hs : \A j \in hs : j <= k) - 1)

Caught == \E k \in 1..Len(stack) : stack[k].fn \in Swallows

\* raise e in the innermost frame.
Raise(e) ==
    /\ stack' = Unwound
    /\ exc' = IF Caught THEN "none" ELSE e

\* The innermost frame is the _init_display(invert) that __init__ called.
InConstructorInit ==
    /\ Len(stack) = 2
    /\ stack[1].fn = "__init__"
    /\ Top.fn = "_init_display"

\* The except block of _write_command and _write_data, the caller's frame
\* left at f: the error is logged and _recover_spi() runs up to its call of
\* _init_display(False) - the handle closed and reopened, the panel reset.
\* g is the state of the lines when the transfer raised. When the
\* recoveries nest too deep the call raises RecursionError instead.
CallRecover(f, g) ==
    IF Depth < limit
    THEN /\ stack' = Append(Called(f, Frame("_recover_spi", 4, <<>>)),
                            Frame("_init_display", 1, <<FALSE>>))
         /\ exc' = "none"
         /\ spi' = [open |-> TRUE, port |-> RECOVER_PORT, cs |-> RECOVER_CS,
                    max_speed_hz |-> RECOVER_SPEED_HZ]
         /\ gpio' = reset(g)
         /\ panel' = PanelReset
         /\ obs' = [obs EXCEPT !.faulted = TRUE, !.pending = FALSE,
                               !.started = TRUE, !.nested = @ \/ Depth >= 1,
                               !.initfault = @ \/ InConstructorInit]
    ELSE /\ Raise("RecursionError")
         /\ gpio' = g
         /\ obs' = [obs EXCEPT !.faulted = TRUE, !.pending = TRUE,
                               !.initfault = @ \/ InConstructorInit]
         /\ UNCHANGED <<spi, panel>>

\* The line left as it was.
output_dc_ignored(g, level) == g

\* GPIO.output(self._dc, level) on the claimed line.
output_dc(g, level) == [g EXCEPT !.dc = level]

\* --------------------------------------------------------------- actions
_write_command ==
    /\ Running
    /\ Instr(Top).op = "cmd"
    /\ UNCHANGED <<call, phase, cfg, limit, self, life>>
    /\ \/ /\ "dc" \in gpio.claimed
          /\ spi.open
          /\ gpio' = output_dc(gpio, 0)
          /\ bus' = Sent([dc |-> gpio'.dc, pat |-> <<BitAnd(Instr(Top).c, 255)>>, rep |-> 1])
          /\ panel' = PanelAfter(Instr(Top).c)
          /\ stack' = Stepped(Advance(Top))
          /\ UNCHANGED <<exc, spi, faultsLeft, obs>>
       \/ /\ "dc" \in gpio.claimed
          /\ MayFault
          /\ faultsLeft' = FaultSpent
          /\ CallRecover(Advance(Top), output_dc(gpio, 0))
          /\ UNCHANGED bus
       \/ /\ "dc" \notin gpio.claimed
          /\ CallRecover(Advance(Top), gpio)
          /\ UNCHANGED <<bus, faultsLeft>>

\* The chunk wrong: the rest of the payload in one transfer.
chunk_unbounded(length, i) == length - i

\* len(data[i : i + _MAX_SPI_CHUNK]) for data of the given length.
chunk(length, i) == Min(MAX_SPI_CHUNK, length - i)

_write_data ==
    /\ Running
    /\ Instr(Top).op = "data"
    /\ UNCHANGED <<call, phase, cfg, limit, self, life>>
    /\ LET d == Instr(Top).d
           length == DataLen(d)
           n == chunk(length, Top.i)
       IN  \/ /\ "dc" \in gpio.claimed
              /\ length = 0
              /\ gpio' = output_dc(gpio, 1)
              /\ stack' = Stepped(Advance(Top))
              /\ UNCHANGED <<exc, spi, panel, bus, faultsLeft, obs>>
           \/ /\ "dc" \in gpio.claimed
              /\ length > 0
              /\ spi.open
              /\ gpio' = output_dc(gpio, 1)
              /\ bus' = Sent([dc |-> gpio'.dc, pat |-> d.pat, rep |-> n \div Len(d.pat)])
              /\ stack' = IF Top.i + MAX_SPI_CHUNK < length
                          THEN Stepped([Top EXCEPT !.i = Top.i + MAX_SPI_CHUNK])
                          ELSE Stepped(Advance(Top))
              /\ UNCHANGED <<exc, spi, panel, faultsLeft, obs>>
           \/ /\ "dc" \in gpio.claimed
              /\ length > 0
              /\ MayFault
              /\ faultsLeft' = FaultSpent
              /\ CallRecover(Advance(Top), output_dc(gpio, 1))
              /\ UNCHANGED bus
           \/ /\ "dc" \notin gpio.claimed
              /\ CallRecover(Advance(Top), gpio)
              /\ UNCHANGED <<bus, faultsLeft>>

\* _recover_spi once _init_display(False) has returned: the rotation is
\* applied again, then the success is logged.
_recover_spi ==
    /\ Running
    /\ Top.fn = "_recover_spi"
    /\ UNCHANGED <<exc, call, phase, cfg, limit, self, spi, gpio, panel, bus,
                   faultsLeft, life>>
    /\ \/ /\ Top.pc = 4
          /\ stack' = Called(Advance(Top), Frame("set_rotation", 1, <<self.rotation>>))
          /\ UNCHANGED obs
       \/ /\ Top.pc = 5
          /\ obs' = [obs EXCEPT !.recovered = TRUE]
          /\ stack' = Popped

FullWindow ==
    Frame("_set_window", 1,
          <<0 + self.x_offset, 0 + self.y_offset,
            self.width - 1 + self.x_offset, self.height - 1 + self.y_offset>>)

set_rotation ==
    /\ Running
    /\ Top.fn = "set_rotation"
    /\ UNCHANGED <<call, phase, cfg, limit, spi, gpio, panel, bus, faultsLeft, obs, life>>
    /\ LET rotation == Top.a[1] % 360
       IN  \/ /\ Top.pc = 1
              /\ rotation \notin {0, 90, 180, 270}
              /\ Raise("ValueError")
              /\ UNCHANGED self
           \/ /\ Top.pc = 1
              /\ rotation \in {0, 90, 180, 270}
              /\ self' = Geometry(self, rotation)
              /\ stack' = Stepped([Advance(Top) EXCEPT !.a = <<rotation, Madctl(rotation)>>])
              /\ UNCHANGED exc
           \/ /\ Top.pc = 4
              /\ stack' = Called(Advance(Top), FullWindow)
              /\ UNCHANGED <<exc, self>>
           \/ /\ Top.pc = 5
              /\ self' = [self EXCEPT !.rotation = rotation]
              /\ stack' = Popped
              /\ UNCHANGED exc

\* _init_display, _set_window and display run to their end and return.
FnReturn ==
    /\ Running
    /\ Instr(Top).op = "ret"
    /\ stack' = Popped
    /\ UNCHANGED <<exc, call, phase, cfg, limit, self, spi, gpio, panel, bus,
                   faultsLeft, obs, life>>

display ==
    /\ Running
    /\ Top.fn = "display"
    /\ UNCHANGED <<exc, call, phase, cfg, limit, self, spi, gpio, panel, bus,
                   faultsLeft, obs, life>>
    /\ \/ /\ Top.pc = 1
          /\ LET image == Top.a
                 sized == IF <<image.w, image.h>> # <<self.width, self.height>>
                          THEN resize(image, self.width, self.height)
                          ELSE image
             IN  stack' = Stepped([Advance(Top) EXCEPT !.a = <<>>,
                                                       !.d = image_to_data(sized)])
       \/ /\ Top.pc = 2
          /\ stack' = Called(Advance(Top), FullWindow)

\* fill's color: a tuple or a string is converted, an int is taken as it is.
FillColor(color) ==
    IF color.kind \in {"tuple", "str"} THEN rgb_to_565(color)
    ELSE [ok |-> TRUE, v |-> color.v[1]]

fill ==
    /\ Running
    /\ Top.fn = "fill"
    /\ UNCHANGED <<call, phase, cfg, limit, self, spi, panel, life>>
    /\ \/ /\ Top.pc = 1
          /\ ~FillColor(Top.a).ok
          /\ Raise("ValueError")
          /\ UNCHANGED <<gpio, bus, faultsLeft, obs>>
       \/ /\ Top.pc = 1
          /\ FillColor(Top.a).ok
          /\ LET color == FillColor(Top.a).v
                 hi == BitAnd(Shr(color, 8), 255)
                 lo == BitAnd(color, 255)
             IN  stack' = Stepped([Advance(Top) EXCEPT
                                     !.a = <<>>,
                                     !.d = [pat |-> <<hi, lo>>,
                                            rep |-> self.width * self.height]])
          /\ UNCHANGED <<exc, gpio, bus, faultsLeft, obs>>
       \/ /\ Top.pc = 2
          /\ stack' = Called(Advance(Top), FullWindow)
          /\ UNCHANGED <<exc, gpio, bus, faultsLeft, obs>>
       \/ /\ Top.pc = 3
          /\ "dc" \in gpio.claimed
          /\ gpio' = output_dc(gpio, 1)
          /\ stack' = Stepped(Advance(Top))
          /\ UNCHANGED <<exc, bus, faultsLeft, obs>>
       \/ /\ Top.pc = 3
          /\ "dc" \notin gpio.claimed
          /\ Raise("RuntimeError")
          /\ UNCHANGED <<gpio, bus, faultsLeft, obs>>
       \/ /\ Top.pc = 4
          /\ spi.open
          /\ LET total_pixels == Top.d.rep
                 pixels_per_chunk == MAX_SPI_CHUNK \div 2
                 chunk_size == Min(pixels_per_chunk, total_pixels - Top.i)
             IN  /\ bus' = Sent([dc |-> gpio.dc, pat |-> Top.d.pat, rep |-> chunk_size])
                 /\ stack' = IF Top.i + pixels_per_chunk < total_pixels
                             THEN Stepped([Top EXCEPT !.i = Top.i + pixels_per_chunk])
                             ELSE Stepped([Top EXCEPT !.pc = 5])
          /\ UNCHANGED <<exc, gpio, faultsLeft, obs>>
       \/ /\ Top.pc = 4
          /\ MayFault
          /\ Raise("IOError")
          /\ faultsLeft' = FaultSpent
          /\ obs' = [obs EXCEPT !.faulted = TRUE, !.pending = TRUE]
          /\ UNCHANGED <<gpio, bus>>

close ==
    /\ Running
    /\ Top.fn = "close"
    /\ spi' = ClosedHandle
    /\ gpio' = Cleanup
    /\ life' =
          [life EXCEPT
             !.closes = @ + 1,
             !.bus = @ + (IF spi.open THEN 1 ELSE 0),
             !.dc = @ + (IF "dc" \in gpio.claimed THEN 1 ELSE 0),
             !.rst = @ + (IF "rst" \in gpio.claimed THEN 1 ELSE 0),
             !.bl = @ + (IF "bl" \in gpio.claimed THEN 1 ELSE 0)]
    /\ stack' = Popped
    /\ UNCHANGED <<exc, call, phase, cfg, limit, self, panel, bus, faultsLeft, obs>>

\* The lines GPIO.setup has claimed when the k-th GPIO call of __init__
\* raises (1 setmode, 2..4 setup of dc, rst, bl, 5 output), all for k = 0.
ClaimedBefore(k) ==
    CASE k \in {1, 2} -> {}
      [] k = 3 -> {"dc"}
      [] k = 4 -> {"dc", "rst"}
      [] OTHER -> Lines

__init__ ==
    /\ Running
    /\ Top.fn = "__init__"
    /\ UNCHANGED <<call, phase, cfg, limit, bus, faultsLeft, obs, life>>
    /\ \/ /\ Top.pc = 1
          /\ self' = [orig_width |-> DISPLAY_WIDTH, orig_height |-> DISPLAY_HEIGHT,
                      hw_x_offset |-> cfg.x_offset, hw_y_offset |-> cfg.y_offset,
                      x_offset |-> cfg.x_offset, y_offset |-> cfg.y_offset,
                      width |-> DISPLAY_WIDTH, height |-> DISPLAY_HEIGHT,
                      rotation |-> 0]
          /\ \E k \in 0..5 :
                /\ gpio' = [gpio EXCEPT !.claimed = ClaimedBefore(k)]
                /\ IF k = 0
                   THEN stack' = Stepped(Advance(Top)) /\ exc' = "none"
                   ELSE Raise("RuntimeError")
          /\ UNCHANGED <<spi, panel>>
       \/ /\ Top.pc = 2
          /\ spi' = [open |-> TRUE, port |-> cfg.port, cs |-> cfg.cs,
                     max_speed_hz |-> cfg.speed_hz]
          /\ stack' = Stepped(Advance(Top))
          /\ UNCHANGED <<exc, self, gpio, panel>>
       \/ /\ Top.pc = 2
          /\ gpio' = Cleanup
          /\ Raise("IOError")
          /\ UNCHANGED <<self, spi, panel>>
       \/ /\ Top.pc = 3
          /\ gpio' = reset(gpio)
          /\ panel' = PanelReset
          /\ stack' = Stepped(Advance(Top))
          /\ UNCHANGED <<exc, self, spi>>
       \/ /\ Top.pc = 4
          /\ gpio' = backlight(gpio)
          /\ stack' = Stepped(Advance(Top))
          /\ UNCHANGED <<exc, self, spi, panel>>
       \/ /\ Top.pc = 5
          /\ stack' = Called(Advance(Top), Frame("_init_display", 1, <<cfg.invert>>))
          /\ UNCHANGED <<exc, self, spi, gpio, panel>>
       \/ /\ Top.pc = 6
          /\ stack' = Called(Advance(Top), Frame("set_rotation", 1, <<cfg.rotation>>))
          /\ UNCHANGED <<exc, self, spi, gpio, panel>>
       \/ /\ Top.pc = 7
          /\ stack' = Called(Advance(Top),
                             Frame("fill", 1, [kind |-> "tuple", v |-> <<0, 0, 0>>]))
          /\ UNCHANGED <<exc, self, spi, gpio, panel>>
       \/ /\ Top.pc = 8
          /\ stack' = Popped
          /\ UNCHANGED <<exc, self, spi, gpio, panel>>

\* ------------------------------------------------------------ the caller
Idle == stack = <<>> /\ call = "none"
Returning == stack = <<>> /\ call # "none"

Construct ==
    /\ Idle
    /\ phase = "Uninitialized"
    /\ call' = "__init__"
    /\ stack' = <<Frame("__init__", 1, <<>>)>>
    /\ UNCHANGED <<exc, phase, cfg, limit, self, spi, gpio, panel, bus, faultsLeft,
                   obs, life>>

\* A public method called on the instance the constructor returned.
Invoke(name, f) ==
    /\ Idle
    /\ \/ phase = "Ready"
       \/ phase = "Closed" /\ life.after < MaxCallsAfterClose
    /\ call' = name
    /\ stack' = <<f>>
    /\ obs' = [NoObs EXCEPT !.pre = SelfGeometry]
    /\ life' = [life EXCEPT !.after = IF phase = "Closed" THEN @ + 1 ELSE @]
    /\ UNCHANGED <<exc, phase, cfg, limit, self, spi, gpio, panel, bus, faultsLeft>>

CallDisplay == \E image \in Images : Invoke("display", Frame("display", 1, image))

CallFill == \E color \in ColorArgs : Invoke("fill", Frame("fill", 1, color))

CallSetRotation ==
    \E r \in RotationArgs : Invoke("set_rotation", Frame("set_rotation", 1, <<r>>))

\* close(), also as __exit__ makes it.
CallClose ==
    /\ Idle
    /\ phase \in {"Ready", "Closed"}
    /\ life.closes < MaxCloses
    /\ call' = "close"
    /\ stack' = <<Frame("close", 1, <<>>)>>
    /\ obs' = [NoObs EXCEPT !.pre = SelfGeometry]
    /\ UNCHANGED <<exc, phase, cfg, limit, self, spi, gpio, panel, bus, faultsLeft, life>>

\* The call is over: the caller has the result, or the exception.
Return ==
    /\ Returning
    /\ phase' = CASE call = "__init__" -> IF exc = "none" THEN "Ready" ELSE "Failed"
                  [] call = "close" -> "Closed"
                  [] OTHER -> phase
    /\ call' = "none"
    /\ exc' = "none"
    /\ bus' = <<>>
    /\ obs' = NoObs
    /\ UNCHANGED <<stack, cfg, limit, self, spi, gpio, panel, faultsLeft, life>>

Next ==
    \/ Construct
    \/ CallDisplay
    \/ CallFill
    \/ CallSetRotation
    \/ CallClose
    \/ __init__
    \/ _write_command
    \/ _write_data
    \/ _recover_spi
    \/ set_rotation
    \/ display
    \/ fill
    \/ close
    \/ FnReturn
    \/ Return

Spec == Init /\ [][Next]_vars

SpecNested == InitNested /\ [][Next]_vars

\* --------------------------------------------- _write_data on its own
\* Payloads around the chunk boundaries: of single bytes, and of byte
\* pairs as pixel data is.
Payloads ==
    { [pat |-> <<7>>, rep |-> k * MAX_SPI_CHUNK + e] :
          k \in 0..MaxChunks, e \in 0..2 }
    \cup { [pat |-> <<7>>, rep |-> k * MAX_SPI_CHUNK - 1] : k \in 1..MaxChunks }
    \cup { [pat |-> <<248, 0>>, rep |-> k * (MAX_SPI_CHUNK \div 2) + e] :
             k \in 0..MaxChunks, e \in {0, 1, 256} }

\* The fields of a constructed driver at rotation r.
ReadySelf(c, r) ==
    [Geometry([orig_width |-> DISPLAY_WIDTH, orig_height |-> DISPLAY_HEIGHT,
               hw_x_offset |-> c.x_offset, hw_y_offset |-> c.y_offset,
               x_offset |-> c.x_offset, y_offset |-> c.y_offset,
               width |-> DISPLAY_WIDTH, height |-> DISPLAY_HEIGHT,
               rotation |-> 0], r) EXCEPT !.rotation = r]

\* A constructed driver on a bus without faults, and _write_data(d) called.
InitChunks ==
    /\ \E d \in Payloads :
           stack = <<[Frame("_write_data", 1, <<>>) EXCEPT !.d = d]>>
    /\ exc = "none"
    /\ call = "_write_data"
    /\ phase = "Ready"
    /\ cfg \in {c \in Configs : c.rotation = 270}
    /\ self = ReadySelf(cfg, cfg.rotation)
    /\ spi = [open |-> TRUE, port |-> cfg.port, cs |-> cfg.cs,
              max_speed_hz |-> cfg.speed_hz]
    /\ gpio = [claimed |-> Lines, dc |-> 1, rst |-> 1, bl |-> 1]
    /\ panel = [inverted |-> cfg.invert]
    /\ bus = <<>>
    /\ obs = NoObs
    /\ faultsLeft = 0
    /\ limit = MaxDepth
    /\ life = Life(0)

NextChunks ==
    \/ _write_data
    \/ FnReturn
    \/ Return

SpecChunks == InitChunks /\ [][NextChunks]_vars

\* --------------------------------------------- _rgb_to_565 on its own
\* Channel values around the limits of the range and of the bit fields.
Channels == {-1, 0, 1, 3, 4, 7, 8, 127, 128, 248, 251, 252, 255, 256}

\* Color arguments: every triple of those, and the strings of ColorArgs.
ColorInputs ==
    { [kind |-> "tuple", v |-> <<r, g, b>>] : r \in Channels, g \in Channels, b \in Channels }
    \cup { c \in ColorArgs : c.kind = "str" }

\* A constructed driver, and _rgb_to_565(color) called.
InitColor ==
    /\ \E color \in ColorInputs : stack = <<Frame("_rgb_to_565", 1, color)>>
    /\ exc = "none"
    /\ call = "_rgb_to_565"
    /\ phase = "Ready"
    /\ cfg \in {c \in Configs : c.rotation = 270}
    /\ self = ReadySelf(cfg, cfg.rotation)
    /\ spi = [open |-> TRUE, port |-> cfg.port, cs |-> cfg.cs,
              max_speed_hz |-> cfg.speed_hz]
    /\ gpio = [claimed |-> Lines, dc |-> 1, rst |-> 1, bl |-> 1]
    /\ panel = [inverted |-> cfg.invert]
    /\ bus = <<>>
    /\ obs = NoObs
    /\ faultsLeft = 0
    /\ limit = MaxDepth
    /\ life = Life(0)

\* _rgb_to_565 called directly: the value it returns is kept in the frame
\* as a one-element payload; hex_to_rgb's ValueError goes to the caller.
_rgb_to_565 ==
    /\ At("_rgb_to_565", 1)
    /\ UNCHANGED <<call, phase, cfg, limit, self, spi, gpio, panel, bus,
                   faultsLeft, obs, life>>
    /\ LET c == rgb_to_565(Top.a)
       IN  IF c.ok
           THEN /\ stack' = Stepped([Advance(Top) EXCEPT !.d = Bytes(<<c.v>>)])
                /\ UNCHANGED exc
           ELSE Raise("ValueError")

NextColor ==
    \/ _rgb_to_565
    \/ FnReturn
    \/ Return

SpecColor == InitColor /\ [][NextColor]_vars

\* ----------------------------------------------------------------- claims
\* A public operation has run to its end on a constructed, open instance
\* and is about to hand its result to the caller.
AtReturnOf(names) == Returning /\ phase = "Ready" /\ call \in names

\* The rotation table of the specification: rotation -> active size and
\* offsets, on the offsets the driver was constructed with.
TableGeometry(r) ==
    IF r \in {0, 180}
    THEN <<r, 80, 160, cfg.x_offset, cfg.y_offset>>
    ELSE <<r, 160, 80, cfg.y_offset, cfg.x_offset>>

\* C1: between the calls made on a constructed instance, whatever faults
\* the transfers met, the active width, height and offsets are the ones
\* the rotation table assigns to the current rotation.
C1_GeometryFollowsRotation ==
    (Idle /\ phase = "Ready") => SelfGeometry = TableGeometry(self.rotation)

\* C2: when display() or fill() returns, no error reaches the caller, the
\* bus handle is open, the control lines are claimed, and the rotation and
\* the active geometry are the ones the call started with.
C2_DisplayFillKeepReady ==
    AtReturnOf({"display", "fill"}) =>
        /\ exc = "none"
        /\ spi.open
        /\ Lines \subseteq gpio.claimed
        /\ SelfGeometry = obs.pre

\* C3: when a public operation returns, no transfer fault of the call is
\* left without a recovery attempt.
C3_EveryFaultRecovered ==
    AtReturnOf({"display", "fill", "set_rotation"}) => ~obs.pending

\* C4: a constructor whose initialization sequence met a transfer fault
\* ends with an error raised to the caller.
C4_InitFaultFailsConstruction ==
    (Returning /\ call = "__init__" /\ obs.initfault) => exc # "none"

\* C5: during a public operation no recovery is started while another
\* recovery is running.
C5_NoNestedRecovery ==
    (phase = "Ready" /\ call \in {"display", "fill", "set_rotation"}) => ~obs.nested

\* C6: when a public operation returns after a recovery that ran to its
\* end, the panel's display mode is the one the driver was constructed
\* with.
C6_RecoveryKeepsInvert ==
    (AtReturnOf({"display", "fill", "set_rotation"}) /\ obs.recovered) =>
        panel.inverted = cfg.invert

\* C7: once a public operation has started a recovery, the bus handle is
\* open on the port, device select and clock speed the driver was
\* constructed with.
C7_RecoveryKeepsBusConfig ==
    (phase = "Ready" /\ call \in {"display", "fill", "set_rotation"} /\ obs.started) =>
        /\ spi.port = cfg.port
        /\ spi.cs = cfg.cs
        /\ spi.max_speed_hz = cfg.speed_hz

\* C8: once close() has returned the bus handle stays released and no
\* byte is transmitted, whatever is called on the instance.
C8_ClosedIsTerminal ==
    phase = "Closed" => (~spi.open /\ bus = <<>>)

\* C9: close() never raises, and over the lifetime of an instance the bus
\* handle and each control line are released at most once, exactly once
\* after the first close().
C9_ReleasedExactlyOnce ==
    /\ call = "close" => exc = "none"
    /\ \A k \in {"bus", "dc", "rst", "bl"} : life[k] <= 1
    /\ phase = "Closed" => \A k \in {"bus", "dc", "rst", "bl"} : life[k] >= 1

\* C10: when the constructor raises, the bus handle is closed and no
\* control line is claimed.
C10_FailedConstructionReleases ==
    (Returning /\ call = "__init__" /\ exc # "none") =>
        (~spi.open /\ gpio.claimed = {})

\* A call of the public method fn made by the caller is at its first
\* statement.
Entered(fn) == Len(stack) = 1 /\ call = fn /\ At(fn, 1)

\* C11: set_rotation(r) with r not one of 0, 90, 180, 270 raises to the
\* caller in its first step, with no byte sent and the rotation, size and
\* offsets left as they were.
C11_InvalidRotationRejected ==
    [][(Entered("set_rotation") /\ Top.a[1] \notin {0, 90, 180, 270}) =>
          (stack' = <<>> /\ exc' # "none" /\ bus' = <<>> /\ self' = self)]_vars

\* C12: fill(color) with a malformed color ends in its first step with an
\* error for the caller and no byte sent.
C12_MalformedColorRejected ==
    [][(Entered("fill") /\ ~FillColor(Top.a).ok) =>
          (stack' = <<>> /\ exc' # "none" /\ bus' = <<>>)]_vars

\* The bytes of the transfers in b, added up.
RECURSIVE TotalBytes(_)
TotalBytes(b) ==
    IF b = <<>> THEN 0 ELSE Len(Head(b).pat) * Head(b).rep + TotalBytes(Tail(b))

\* _write_data(d), called on its own, has sent d and is about to return.
WroteData == call = "_write_data" /\ At("_write_data", 2)

\* C13: a payload of L bytes written through _write_data without a fault
\* has reached the bus as ceil(L / 4096) data transfers, each of 1 to 4096
\* bytes, which are the payload's bytes in order.
C13_ChunkedPayload ==
    WroteData =>
        LET d == Top.d
            L == DataLen(d)
        IN  /\ Len(bus) = (L + 4095) \div 4096
            /\ \A k \in 1..Len(bus) :
                  /\ bus[k].dc = 1
                  /\ bus[k].pat = d.pat
                  /\ Len(bus[k].pat) * bus[k].rep \in 1..4096
            /\ TotalBytes(bus) = L

\* C13 witness: a payload one byte longer than two chunks went out in
\* three transfers.
C13_Witness ==
    WroteData /\ DataLen(Top.d) = 8193 /\ Len(bus) = 3

\* Transfer t is the command byte c.
IsCommand(t, c) == t.dc = 0 /\ t.pat = <<c>> /\ t.rep = 1
\* Transfer t is a payload of n parameter bytes.
IsParams(t, n) == t.dc = 1 /\ Len(t.pat) = n /\ t.rep = 1
\* Transfer t is a chunk of pixel data: byte pairs, more than one.
IsPixels(t) == t.dc = 1 /\ Len(t.pat) = 2 /\ t.rep > 1

\* The k-th transfer of the call starts a pixel payload.
StartsPixels(k) == IsPixels(bus[k]) /\ (k = 1 \/ ~IsPixels(bus[k - 1]))

\* The five transfers before the k-th are a window set.
WindowSetBefore(k) ==
    /\ k > 5
    /\ IsCommand(bus[k - 5], 42)
    /\ IsParams(bus[k - 4], 4)
    /\ IsCommand(bus[k - 3], 43)
    /\ IsParams(bus[k - 2], 4)
    /\ IsCommand(bus[k - 1], 44)

BE16(v) == <<v \div 256, v % 256>>

\* The column and the row bounds of the full window at rotation r, by the
\* rotation table: <<r, width, height, xoff, yoff>>.
ColumnBytes(r) ==
    LET g == TableGeometry(r) IN BE16(0 + g[4]) \o BE16(g[2] - 1 + g[4])
RowBytes(r) ==
    LET g == TableGeometry(r) IN BE16(0 + g[5]) \o BE16(g[3] - 1 + g[5])

\* Every column and row payload among the transfers of the call carries
\* the bounds of rotation r.
WindowsAreFor(r) ==
    \A k \in 1..(Len(bus) - 1) :
        /\ (IsCommand(bus[k], 42) /\ IsParams(bus[k + 1], 4)) =>
               bus[k + 1].pat = ColumnBytes(r)
        /\ (IsCommand(bus[k], 43) /\ IsParams(bus[k + 1], 4)) =>
               bus[k + 1].pat = RowBytes(r)

RECURSIVE PixelBytes(_)
PixelBytes(b) ==
    IF b = <<>> THEN 0
    ELSE (IF IsPixels(Head(b)) THEN 2 * Head(b).rep ELSE 0) + PixelBytes(Tail(b))

\* display() is returning from a call in which no transfer faulted.
DisplayedNoFault == AtReturnOf({"display"}) /\ ~obs.faulted

\* C16: a display() call that met no fault returns without an error after
\* one window set and a pixel payload of 2 x width x height bytes of the
\* active size, whatever the size of the image it was given.
C16_DisplaySendsActiveFrame ==
    DisplayedNoFault =>
        /\ exc = "none"
        /\ WindowSetBefore(6)
        /\ \A k \in 6..Len(bus) : IsPixels(bus[k])
        /\ PixelBytes(bus) = 2 * self.width * self.height

\* C16 witness: a display() on the panel in portrait, where neither the
\* 160x80 nor the 32x32 image has the active size, has sent 25600 bytes.
C16_Witness ==
    DisplayedNoFault /\ self.width = 80 /\ self.height = 160 /\ PixelBytes(bus) = 25600

\* The command bytes of the initialization sequence in the order of the
\* specification: software reset, exit sleep, frame rate 1-3, inversion
\* control, power 1-5, VCOM, pixel format, display mode, display on.
InitCommands(invert) ==
    <<1, 17, 177, 178, 179, 180, 192, 193, 194, 195, 196, 197, 58,
      IF invert THEN 33 ELSE 32, 41>>

\* The commands of the sequence that carry no parameter payload.
BareCommands == {1, 17, 33, 32, 41}

IsCommandTransfer(t) == t.dc = 0

\* The transfers in b are one run of the sequence: its command bytes in
\* order, each with a payload straight after it when it has one, the pixel
\* format 16 bit.
IsInitRun(b, invert) ==
    LET cmds == SelectSeq(b, IsCommandTransfer)
    IN  /\ Len(cmds) = Len(InitCommands(invert))
        /\ \A k \in 1..Len(cmds) : IsCommand(cmds[k], InitCommands(invert)[k])
        /\ b # <<>> /\ b[1].dc = 0
        /\ \A k \in 1..Len(b) :
              IF b[k].dc = 0
              THEN (b[k].pat[1] \notin BareCommands) <=>
                       (k < Len(b) /\ b[k + 1].dc = 1 /\ b[k + 1].rep = 1)
              ELSE b[k - 1].dc = 0
        /\ \A k \in 1..(Len(b) - 1) : IsCommand(b[k], 58) => b[k + 1].pat = <<5>>

\* The last n transfers of the call.
LastOfBus(n) == SubSeq(bus, Len(bus) - n + 1, Len(bus))

\* _init_display is at its end in a run that met no fault: the
\* constructor's, or a recovery's that no further fault interrupted.
InitRanClean ==
    /\ Running /\ Top.fn = "_init_display" /\ Instr(Top).op = "ret"
    /\ \/ call = "__init__" /\ ~obs.faulted /\ Depth = 0
       \/ phase = "Ready" /\ Depth = 1 /\ ~obs.nested /\ ~obs.pending

\* C17: a run of the initialization sequence that met no fault has sent 26
\* transfers: the commands in the specified order, each followed by its
\* parameter payload, with the display mode chosen by invert.
C17_InitSequenceOrder ==
    InitRanClean => (Len(bus) >= 26 /\ IsInitRun(LastOfBus(26), Top.a[1]))

\* C17 witness: the constructor's run for invert = TRUE has sent the
\* inverted-mode command before display-on.
C17_Witness ==
    /\ InitRanClean /\ call = "__init__" /\ cfg.invert
    /\ Len(bus) = 26 /\ IsCommand(bus[25], 33) /\ IsCommand(bus[26], 41)

\* The driver opened as hud.py opens it - rotation 270, hardware offsets
\* (24, 0) - is at that rotation and no transfer has faulted so far.
OpenedAsHud ==
    /\ phase = "Ready"
    /\ cfg.rotation = 270 /\ cfg.x_offset = 24 /\ cfg.y_offset = 0
    /\ self.rotation = 270
    /\ faultsLeft = MaxFaults

\* The pixel transfers of the call are n color words, each equal to w.
PixelWordsAre(n, w) ==
    /\ PixelBytes(bus) = 2 * n
    /\ \A k \in 1..Len(bus) :
          IsPixels(bus[k]) => bus[k].pat[1] * 256 + bus[k].pat[2] = w

\* The geometry of the scenario, and the black frame of its fill.
EndToEndPrefix ==
    /\ (OpenedAsHud /\ Idle) =>
           /\ self.width = 160 /\ self.height = 80
           /\ self.x_offset = 0 /\ self.y_offset = 24
    /\ (OpenedAsHud /\ Returning /\ call = "fill" /\ bus # <<>>) =>
           PixelWordsAre(12800, 0)

\* C18 as stated: opened with rotation 270 and offsets (24, 0) the driver
\* has the active size 160 x 80 and offsets (0, 24), and after a fill of
\* black the display of an all-red image transmits 25600 color words, each
\* 0xF800.
C18_EndToEnd_AsStated ==
    /\ EndToEndPrefix
    /\ (OpenedAsHud /\ Returning /\ call = "display") => PixelWordsAre(25600, 63488)

\* C18 amended: the same with 12800 color words (25600 bytes), each 0xF800.
C18_EndToEnd ==
    /\ EndToEndPrefix
    /\ (OpenedAsHud /\ Returning /\ call = "display") => PixelWordsAre(12800, 63488)

\* C18 witness: such a display() is returning, its frame sent after the
\* window set in words of 0xF800.
C18_Witness ==
    /\ OpenedAsHud /\ Returning /\ call = "display"
    /\ PixelBytes(bus) = 25600 /\ bus[6].pat = <<248, 0>>

\* set_rotation, called by the constructor or by the user, has sent its
\* transfers and is about to store the rotation, and no transfer of the
\* call has faulted.
RotationApplied ==
    /\ At("set_rotation", 5)
    /\ Top.a[1] \in {0, 90, 180, 270}
    /\ Depth = 0
    /\ \/ call = "__init__" /\ Len(stack) = 2 /\ ~obs.faulted
       \/ call = "set_rotation" /\ Len(stack) = 1 /\ phase = "Ready" /\ ~obs.faulted

\* mirror-X = 0x40, mirror-Y = 0x80, swap-axes = 0x20.
OrientationBits(r) ==
    CASE r = 0   -> 64 + 128
      [] r = 90  -> 128 + 32
      [] r = 180 -> 0
      [] r = 270 -> 64 + 32

\* C19: with no fault, set_rotation(r) for r in {0, 90, 180, 270} sends the
\* orientation command with the bits mirror-X|mirror-Y for 0,
\* mirror-Y|swap-axes for 90, none for 180, mirror-X|swap-axes for 270, and
\* sets the active geometry so that width x height = 80 x 160 and the width
\* at r is the height at r + 90 mod 360.
C19_RotationTable ==
    RotationApplied =>
        LET r == Top.a[1]
            b == LastOfBus(7)
        IN  /\ Len(bus) >= 7
            /\ IsCommand(b[1], 54)
            /\ IsParams(b[2], 1) /\ b[2].pat = <<OrientationBits(r)>>
            /\ self.width * self.height = 80 * 160
            /\ self.width = Geometry(self, (r + 90) % 360).height

\* C19 witness: set_rotation(180) on the driver opened at 270 has sent the
\* orientation command with no bits and turned the geometry to 80 x 160.
C19_Witness ==
    /\ RotationApplied /\ call = "set_rotation"
    /\ Top.a[1] = 180 /\ obs.pre[1] = 270
    /\ LastOfBus(7)[2].pat = <<0>>
    /\ self.width = 80 /\ self.height = 160

\* The constructor, given a rotation of the table, is running or returning
\* and has met no failure: no transfer has faulted, nothing was raised.
ConstructingClean ==
    /\ call = "__init__"
    /\ cfg.rotation \in {0, 90, 180, 270}
    /\ ~obs.faulted
    /\ exc = "none"

\* Transfers k .. k + 4 set the full window of rotation r.
FullWindowAt(k, r) ==
    /\ WindowSetBefore(k + 5)
    /\ bus[k + 1].pat = ColumnBytes(r)
    /\ bus[k + 3].pat = RowBytes(r)

\* The transfers of a whole construction: the initialization sequence, the
\* orientation command with the bits of the configured rotation, the full
\* window, then the full window again and a frame of black words.
ConstructionStream ==
    /\ Len(bus) = 45
    /\ IsInitRun(SubSeq(bus, 1, 26), cfg.invert)
    /\ IsCommand(bus[27], 54)
    /\ IsParams(bus[28], 1) /\ bus[28].pat = <<OrientationBits(cfg.rotation)>>
    /\ FullWindowAt(29, cfg.rotation)
    /\ FullWindowAt(34, cfg.rotation)
    /\ \A k \in 39..45 : IsPixels(bus[k]) /\ bus[k].pat = <<0, 0>>
    /\ PixelBytes(bus) = 2 * self.width * self.height

\* C20: construction with no fault performs, in this order and skipping
\* none, the hardware reset, backlight on, the initialization sequence, the
\* configured rotation (orientation command and full-frame window set) and
\* a fill of the whole active rectangle with black; after it the instance
\* is Ready with the configured rotation.
C20_ConstructionOrder ==
    /\ [](ConstructingClean =>
            /\ (gpio.bl = 1 => gpio.rst = 1)
            /\ (bus # <<>> => gpio.rst = 1 /\ gpio.bl = 1)
            /\ (Returning => ConstructionStream /\ self.rotation = cfg.rotation))
    /\ [][(ConstructingClean /\ Returning) =>
            (phase' = "Ready" /\ self'.rotation = cfg.rotation)]_vars

\* C20 witness: the constructor of the hud configuration is returning with
\* no failure, its 45 transfers made and both lines high.
C20_Witness ==
    /\ ConstructingClean /\ Returning
    /\ cfg.rotation = 270
    /\ Len(bus) = 45 /\ bus[45].pat = <<0, 0>>
    /\ gpio.rst = 1 /\ gpio.bl = 1

\* _rgb_to_565, called with a triple of integers, has its result.
Converted ==
    call = "_rgb_to_565" /\ At("_rgb_to_565", 2) /\ Top.a.kind = "tuple"

Clamped(v) == IF v < 0 THEN 0 ELSE IF v > 255 THEN 255 ELSE v

\* ((r & 0xF8) << 8) | ((g & 0xFC) << 3) | (b >> 3) in arithmetic: the
\* fields do not overlap.
Word565(rgb) ==
    (Clamped(rgb[1]) \div 8) * 2048 + (Clamped(rgb[2]) \div 4) * 32
        + Clamped(rgb[3]) \div 8

\* The bit fields of a color word: red, green, blue.
Fields(w) == <<w \div 2048, (w \div 32) % 64, w % 32>>

\* Channel k of rgb raised to v.
Raised(rgb, k, v) == [rgb EXCEPT ![k] = v]

\* C21: for all integer channel values, clamped to 0..255 first, the
\* conversion returns ((r & 0xF8) << 8) | ((g & 0xFC) << 3) | (b >> 3), a
\* value in 0..0xFFFF; black, white, red, green and blue map to 0x0000,
\* 0xFFFF, 0xF800, 0x07E0 and 0x001F; and raising one channel never lowers
\* that channel's field and never changes the other two.
C21_Rgb565 ==
    Converted =>
        LET rgb == Top.a.v
            w == Top.d.pat[1]
        IN  /\ w = Word565(rgb)
            /\ w \in 0..65535
            /\ (rgb = <<0, 0, 0>> => w = 0)
            /\ (rgb = <<255, 255, 255>> => w = 65535)
            /\ (rgb = <<255, 0, 0>> => w = 63488)
            /\ (rgb = <<0, 255, 0>> => w = 2016)
            /\ (rgb = <<0, 0, 255>> => w = 31)
            /\ \A k \in 1..3 : \A v \in Channels :
                  v >= rgb[k] =>
                      LET f == Fields(w)
                          f2 == Fields(pack565(Raised(rgb, k, v)))
                      IN  /\ f2[k] >= f[k]
                          /\ \A j \in 1..3 : j # k => f2[j] = f[j]

\* C21 witness: (256, -1, 255), two channels out of range, gave 0xF81F.
C21_Witness ==
    Converted /\ Top.a.v = <<256, -1, 255>> /\ Top.d.pat = <<63519>>

\* This step made a transfer: the call's stream has a new last element.
Transferred == bus' # bus /\ bus' # <<>>

\* C22: every byte sent as a command goes out with the command-select line
\* low and as a transfer of one byte, and every parameter or pixel chunk
\* with the line high - in fill(), which drives the line itself, too, and
\* across faults and recoveries.
C22_CommandSelectLine ==
    [][Transferred =>
          LET t == bus'[Len(bus')]
          IN  /\ t.dc = gpio'.dc
              /\ IF Instr(Top).op = "cmd"
                 THEN t.dc = 0 /\ Len(t.pat) = 1 /\ t.rep = 1
                 ELSE t.dc = 1]_vars

\* C22 witness: fill(), after a recovery inside its window set, has sent
\* its pixel chunks with the line high.
C22_Witness ==
    /\ call = "fill" /\ phase = "Ready" /\ obs.recovered
    /\ At("fill", 5)
    /\ IsPixels(bus[Len(bus)]) /\ bus[Len(bus)].dc = 1 /\ gpio.dc = 1

\* This step sent the parameter payload of a command: the _write_data that
\* follows a _write_command in _init_display, set_rotation or _set_window.
ParameterSent ==
    /\ Transferred
    /\ Instr(Top).op = "data"
    /\ Top.fn \in {"_init_display", "set_rotation", "_set_window"}

\* The command the payload belongs to: the instruction before it.
CommandOf(f) == Instr([f EXCEPT !.pc = f.pc - 1])

\* C23: command framing survives faults - a parameter payload is only ever
\* sent directly after the command byte it belongs to; the parameters of a
\* command whose byte faulted are not sent after the memory-write command
\* that ends the recovery.
C23_FramingSurvivesFaults ==
    [][ParameterSent =>
          /\ bus # <<>>
          /\ CommandOf(Top).op = "cmd"
          /\ IsCommand(bus[Len(bus)], CommandOf(Top).c)]_vars

====
